---- MODULE Spec2Model ----
(***************************************************************************)
(* EC over GF(p) shared secret (Diffie-Hellman without / with cofactor):   *)
(* ippsGFpECSharedSecretDH and ippsGFpECSharedSecretDHC of pcpgfpecdh.c.   *)
(*                                                                         *)
(* Big numbers are little-endian sequences of limbs (BNU_CHUNK_T) of       *)
(* BNU_CHUNK_BITS bits; the limb width is scaled down so that a field      *)
(* element of the small curves below still takes several limbs.            *)
(***************************************************************************)
EXTENDS Integers, Sequences, FiniteSets, TLC

(* ---------------------------- bounds ----------------------------------- *)
BNU_CHUNK_BITS == 2      \* bits of one limb
MaxScalar == 15          \* private scalars are 0..MaxScalar
MaxRoom == 3             \* the output big number has room 1..MaxRoom
MaxCalls == 2            \* calls made in one behaviour

(* ---------------------------- status codes ----------------------------- *)
ippStsNoErr == "ippStsNoErr"
ippStsNullPtrErr == "ippStsNullPtrErr"
ippStsContextMatchErr == "ippStsContextMatchErr"
ippStsRangeErr == "ippStsRangeErr"
ippStsShareKeyErr == "ippStsShareKeyErr"

(* ---------------------------- context tags ----------------------------- *)
idCtxGFPEC == "idCtxGFPEC"
idCtxGFPPoint == "idCtxGFPPoint"
idCtxBigNum == "idCtxBigNum"
idCtxUnknown == "idCtxUnknown"

ippBigNumPOS == "ippBigNumPOS"
ippBigNumNEG == "ippBigNumNEG"

(* ---------------------------- limb arithmetic -------------------------- *)
Base == 2 ^ BNU_CHUNK_BITS

RECURSIVE Pow(_, _)
Pow(b, e) == IF e = 0 THEN 1 ELSE b * Pow(b, e - 1)

\* number of limbs of the value v, at least one
RECURSIVE LimbLen(_)
LimbLen(v) == IF v < Base THEN 1 ELSE 1 + LimbLen(v \div Base)

\* value of the first len limbs of a limb sequence
RECURSIVE BNU_Value(_, _)
BNU_Value(a, len) ==
    IF len = 0 THEN 0 ELSE a[len] * Pow(Base, len - 1) + BNU_Value(a, len - 1)

\* the value v written into len limbs (high part dropped)
BNU_Limbs(v, len) == [i \in 1..len |-> (v \div Pow(Base, i - 1)) % Base]

\* FIX_BNU(src,srcLen): for(; srcLen>1 && 0==src[srcLen-1]; srcLen--)
RECURSIVE FIX_BNU(_, _)
FIX_BNU(src, srcLen) ==
    IF srcLen > 1 /\ src[srcLen] = 0 THEN FIX_BNU(src, srcLen - 1) ELSE srcLen

\* cpGFpElementPadd(pE, ns, filler) applied to limbs from..from+ns-1 of a
cpGFpElementPadd(a, from, ns, filler) ==
    [i \in 1..Len(a) |-> IF i >= from /\ i < from + ns THEN filler ELSE a[i]]

\* a modular inverse, 0 when there is none
ModInv(a, m) ==
    IF \E b \in 1..(m - 1) : (a * b) % m = 1
    THEN CHOOSE b \in 1..(m - 1) : (a * b) % m = 1
    ELSE 0

(* ---------------------------- curves ----------------------------------- *)
\* y^2 = x^3 + a x + b over GF(p); r is the order of the base point G and
\* cofactor * r the number of points.
Curves ==
    << [p |-> 13, a |-> 7, b |-> 6, r |-> 11, cofactor |-> 1,
        G |-> [inf |-> FALSE, x |-> 1, y |-> 1]],
       [p |-> 13, a |-> 1, b |-> 4, r |-> 7, cofactor |-> 2,
        G |-> [inf |-> FALSE, x |-> 0, y |-> 2]],
       [p |-> 13, a |-> 2, b |-> 2, r |-> 5, cofactor |-> 3,
        G |-> [inf |-> FALSE, x |-> 2, y |-> 1]] >>

CurveIds == 1..Len(Curves)

Infinity == [inf |-> TRUE, x |-> 0, y |-> 0]

AffinePoints(c) ==
    { [inf |-> FALSE, x |-> x, y |-> y] : x \in 0..(Curves[c].p - 1),
                                         y \in 0..(Curves[c].p - 1) }

OnCurve(c, P) ==
    LET E == Curves[c]
    IN  (P.y * P.y) % E.p = (P.x * P.x * P.x + E.a * P.x + E.b) % E.p

CurvePoints(c) == { P \in AffinePoints(c) : OnCurve(c, P) } \cup {Infinity}

\* the group law in affine coordinates
ec_add(c, P, Q) ==
    LET E == Curves[c]
        p == E.p
    IN  IF P.inf THEN Q
        ELSE IF Q.inf THEN P
        ELSE IF P.x = Q.x /\ (P.y + Q.y) % p = 0 THEN Infinity
        ELSE LET l == IF P = Q
                      THEN ((3 * P.x * P.x + E.a) * ModInv((2 * P.y) % p, p)) % p
                      ELSE ((Q.y - P.y + p) * ModInv((Q.x - P.x + p) % p, p)) % p
                 x3 == (l * l + 2 * p - P.x - Q.x) % p
                 y3 == (l * (P.x - x3 + p) + p - P.y) % p
             IN  [inf |-> FALSE, x |-> x3, y |-> y3]

\* double-and-add over the bits of the scalar k
RECURSIVE ec_mul(_, _, _)
ec_mul(c, P, k) ==
    IF k = 0 THEN Infinity
    ELSE LET H == ec_mul(c, P, k \div 2)
             D == ec_add(c, H, H)
         IN  IF k % 2 = 1 THEN ec_add(c, D, P) ELSE D

(* ---------------------------- collaborators ---------------------------- *)
\* GFP_FELEN(pGFE): limbs of a field element
GFP_FELEN(c) == LimbLen(Curves[c].p)

\* MOD_LEN(ECP_MONT_R(pEC)): limbs of the order of the base point
MOD_LEN(c) == LimbLen(Curves[c].r)

\* ECP_COFACTOR(pEC): the limbs of the cofactor
ECP_COFACTOR(c) == BNU_Limbs(Curves[c].cofactor, LimbLen(Curves[c].cofactor))

\* Montgomery factor of an engine whose modulus m takes len limbs
MontFactor(len) == Pow(Base, len)

\* field codec: canonical value -> internal (Montgomery) representation
GFpEncode(x, c) == (x * MontFactor(GFP_FELEN(c))) % Curves[c].p

\* GFP_METHOD(pGFE)->decode: internal representation -> canonical limbs
GFpDecode(pElm, c) ==
    LET p == Curves[c].p
        len == GFP_FELEN(c)
        rinv == ModInv(MontFactor(len) % p, p)
    IN  BNU_Limbs((BNU_Value(pElm, len) * rinv) % p, len)

\* cpMontMul_BNU_EX(pR, pA, nsA, pB, nsB, montR): A * B * R^-1 mod r
cpMontMul_BNU_EX(pA, nsA, pB, nsB, c) ==
    LET r == Curves[c].r
        len == MOD_LEN(c)
        rinv == ModInv(MontFactor(len) % r, r)
    IN  BNU_Limbs((BNU_Value(pA, nsA) * BNU_Value(pB, nsB) * rinv) % r, len)

\* cpMontEnc_BNU_EX(pR, pX, nsX, montR): X * R mod r
cpMontEnc_BNU_EX(pX, nsX, c) ==
    LET r == Curves[c].r
        len == MOD_LEN(c)
    IN  BNU_Limbs((BNU_Value(pX, nsX) * MontFactor(len)) % r, len)

\* gfec_MulPoint(pR, pP, pScalar, scalarLen, pEC, scratch): [scalar]P
gfec_MulPoint(P, pScalar, scalarLen, c) ==
    ec_mul(c, P, BNU_Value(pScalar, scalarLen))

\* gfec_GetPoint(pX, NULL, pPoint, pEC): 1 and the x-coordinate in internal
\* representation when the point is finite, 0 and zeros otherwise
gfec_GetPoint(P, c) ==
    [finite |-> ~P.inf,
     x |-> BNU_Limbs(IF P.inf THEN 0 ELSE GFpEncode(P.x, c), GFP_FELEN(c))]

(* ---------------------------- objects ---------------------------------- *)
BN_ROOM(bn) == bn.room
BN_SIZE(bn) == bn.size
BN_NUMBER(bn) == bn.number
BN_SIGN(bn) == bn.sgn
BN_VALID_ID(bn) == bn.idCtx = idCtxBigNum
ECP_TEST_ID(ec) == ec.idCtx = idCtxGFPEC
ECP_POINT_TEST_ID(pt) == pt.idCtx = idCtxGFPPoint

NullBN == [null |-> TRUE, idCtx |-> idCtxUnknown, sgn |-> ippBigNumPOS,
           size |-> 0, room |-> 0, number |-> << >>]
NullPoint == [null |-> TRUE, idCtx |-> idCtxUnknown, P |-> Infinity]
NullEC == [null |-> TRUE, idCtx |-> idCtxUnknown]

\* a normalized big number holding v, with pad stale limbs above its size
BigNumIn(v, id, sgn, pad) ==
    [null |-> FALSE, idCtx |-> id, sgn |-> sgn,
     size |-> LimbLen(v), room |-> LimbLen(v) + pad,
     number |-> [i \in 1..(LimbLen(v) + pad) |->
                    IF i <= LimbLen(v) THEN BNU_Limbs(v, LimbLen(v))[i]
                    ELSE Base - 1]]

BigNum(v, id) == BigNumIn(v, id, ippBigNumPOS, 0)

\* the arguments a caller may pass
ECArgs ==
    {NullEC} \cup { [null |-> FALSE, idCtx |-> id] : id \in {idCtxGFPEC, idCtxUnknown} }

ScratchArgs == { [null |-> n] : n \in BOOLEAN }

PrivateArgs ==
    {NullBN, BigNum(1, idCtxUnknown)}
    \cup { BigNumIn(v, idCtxBigNum, ippBigNumPOS, pad) :
             v \in 0..MaxScalar, pad \in 0..1 }

PublicArgs(c) ==
    {NullPoint, [null |-> FALSE, idCtx |-> idCtxUnknown, P |-> Curves[c].G]}
    \cup { [null |-> FALSE, idCtx |-> idCtxGFPPoint, P |-> Q] : Q \in CurvePoints(c) }

\* output big numbers: any room, zeroed or holding stale negative data
ShareArgs ==
    {NullBN}
    \cup { [null |-> FALSE, idCtx |-> id, sgn |-> ippBigNumPOS, size |-> 1,
            room |-> rm, number |-> [i \in 1..rm |-> 0]] :
           id \in {idCtxBigNum, idCtxUnknown}, rm \in 1..MaxRoom }
    \cup { [null |-> FALSE, idCtx |-> id, sgn |-> ippBigNumNEG, size |-> rm,
            room |-> rm, number |-> [i \in 1..rm |-> Base - 1]] :
           id \in {idCtxBigNum, idCtxUnknown}, rm \in 1..MaxRoom }

CallArgs(c) ==
    [pEC : ECArgs, pScratchBuffer : ScratchArgs,
     pPrivateA : PrivateArgs, pPublicB : PublicArgs(c)]

NoArgs ==
    [pEC |-> NullEC, pScratchBuffer |-> [null |-> TRUE],
     pPrivateA |-> NullBN, pPublicB |-> NullPoint]

(* ---------------------------- state ------------------------------------ *)
VARIABLES
    curve,          \* the curve the context pEC was built for
    pc,             \* position of the running call, "idle" between calls
    fn,             \* the entry point called last
    arg,            \* its arguments other than pShare
    share,          \* the big number pShare points to
    share0,         \* the same big number when the call was entered
    ecPool,         \* scratch points of pEC in use
    gfPool,         \* scratch elements of the field in use
    cnt,            \* pool reservations and releases made by the call
    nsR,            \* local nsR of the cofactor variant
    T,              \* local point T
    elm,            \* limbs of the reserved field element (F and elm)
    finite_point,   \* local finite_point
    status,         \* status returned by the call
    calls           \* number of calls entered so far

vars == << curve, pc, fn, arg, share, share0, ecPool, gfPool, cnt, nsR, T,
           elm, finite_point, status, calls >>

locals == << nsR, T, elm, finite_point >>

NoCount == [getPoint |-> 0, getElm |-> 0, relPoint |-> 0, relElm |-> 0]

Passed == "passed"
Running == "running"
NoStatus == "none"

(* ---------------------------- ippsGFpECSharedSecretDH ------------------ *)
\* variant: the output is tested before the public point
DH_BadArg_ShareFirst(a, sh, c) ==
    IF a.pEC.null \/ a.pScratchBuffer.null THEN ippStsNullPtrErr
    ELSE IF ~ECP_TEST_ID(a.pEC) THEN ippStsContextMatchErr
    ELSE IF a.pPrivateA.null THEN ippStsNullPtrErr
    ELSE IF ~BN_VALID_ID(a.pPrivateA) THEN ippStsContextMatchErr
    ELSE IF sh.null THEN ippStsNullPtrErr
    ELSE IF ~BN_VALID_ID(sh) THEN ippStsContextMatchErr
    ELSE IF BN_ROOM(sh) < GFP_FELEN(c) THEN ippStsRangeErr
    ELSE IF a.pPublicB.null THEN ippStsNullPtrErr
    ELSE IF ~ECP_POINT_TEST_ID(a.pPublicB) THEN ippStsContextMatchErr
    ELSE Passed

\* variant: the room test is off by one
DH_BadArg_RoomOffByOne(a, sh, c) ==
    IF a.pEC.null \/ a.pScratchBuffer.null THEN ippStsNullPtrErr
    ELSE IF ~ECP_TEST_ID(a.pEC) THEN ippStsContextMatchErr
    ELSE IF a.pPrivateA.null THEN ippStsNullPtrErr
    ELSE IF ~BN_VALID_ID(a.pPrivateA) THEN ippStsContextMatchErr
    ELSE IF a.pPublicB.null THEN ippStsNullPtrErr
    ELSE IF ~ECP_POINT_TEST_ID(a.pPublicB) THEN ippStsContextMatchErr
    ELSE IF sh.null THEN ippStsNullPtrErr
    ELSE IF ~BN_VALID_ID(sh) THEN ippStsContextMatchErr
    ELSE IF BN_ROOM(sh) < GFP_FELEN(c) - 1 THEN ippStsRangeErr
    ELSE Passed

\* the argument tests: the status of the first failing one
DH_BadArg(a, sh, c) ==
    IF a.pEC.null \/ a.pScratchBuffer.null THEN ippStsNullPtrErr
    ELSE IF ~ECP_TEST_ID(a.pEC) THEN ippStsContextMatchErr
    ELSE IF a.pPrivateA.null THEN ippStsNullPtrErr
    ELSE IF ~BN_VALID_ID(a.pPrivateA) THEN ippStsContextMatchErr
    ELSE IF a.pPublicB.null THEN ippStsNullPtrErr
    ELSE IF ~ECP_POINT_TEST_ID(a.pPublicB) THEN ippStsContextMatchErr
    ELSE IF sh.null THEN ippStsNullPtrErr
    ELSE IF ~BN_VALID_ID(sh) THEN ippStsContextMatchErr
    ELSE IF BN_ROOM(sh) < GFP_FELEN(c) THEN ippStsRangeErr
    ELSE Passed

\* variant: the scalar is read over the room of the private key
DH_T_RoomLen(a, c) ==
    gfec_MulPoint(a.pPublicB.P, BN_NUMBER(a.pPrivateA), BN_ROOM(a.pPrivateA), c)

\* T = [privateA]pPublicB
DH_T(a, c) ==
    gfec_MulPoint(a.pPublicB.P, BN_NUMBER(a.pPrivateA), BN_SIZE(a.pPrivateA), c)

\* variant: the x-coordinate is copied without decoding
DH_Share_NoDecode(sh, pElm, c) ==
    LET elmLen == GFP_FELEN(c)
        nsShare == BN_ROOM(sh)
        written == [i \in 1..nsShare |->
                       IF i <= elmLen THEN pElm[i] ELSE BN_NUMBER(sh)[i]]
        padded == cpGFpElementPadd(written, elmLen + 1, nsShare - elmLen, 0)
    IN  [sh EXCEPT !.number = padded,
                   !.sgn = ippBigNumPOS,
                   !.size = FIX_BNU(padded, nsShare)]

\* share = decode(T.x), padded, positive, normalized
DH_Share(sh, pElm, c) ==
    LET elmLen == GFP_FELEN(c)
        nsShare == BN_ROOM(sh)
        decoded == GFpDecode(pElm, c)
        written == [i \in 1..nsShare |->
                       IF i <= elmLen THEN decoded[i] ELSE BN_NUMBER(sh)[i]]
        padded == cpGFpElementPadd(written, elmLen + 1, nsShare - elmLen, 0)
    IN  [sh EXCEPT !.number = padded,
                   !.sgn = ippBigNumPOS,
                   !.size = FIX_BNU(padded, nsShare)]

\* return finite_point ? ippStsNoErr : ippStsShareKeyErr
DH_Status(finite) == IF finite THEN ippStsNoErr ELSE ippStsShareKeyErr

\* the whole call: its status and the big number it leaves
ippsGFpECSharedSecretDH(a, sh, c) ==
    IF DH_BadArg(a, sh, c) # Passed
    THEN [status |-> DH_BadArg(a, sh, c), share |-> sh]
    ELSE LET g == gfec_GetPoint(DH_T(a, c), c)
         IN  [status |-> DH_Status(g.finite),
              share |-> IF g.finite THEN DH_Share(sh, g.x, c) ELSE sh]

DH_Enter ==
    /\ pc = "idle"
    /\ calls < MaxCalls
    /\ calls' = calls + 1
    /\ \E a \in CallArgs(curve), sh \in ShareArgs :
          /\ arg' = a
          /\ share' = sh
          /\ share0' = sh
          /\ IF DH_BadArg(a, sh, curve) = Passed
             THEN pc' = "dh_mul" /\ status' = Running
             ELSE pc' = "done" /\ status' = DH_BadArg(a, sh, curve)
    /\ fn' = "DH"
    /\ cnt' = NoCount
    /\ UNCHANGED << curve, ecPool, gfPool, locals >>

DH_MulPoint ==
    /\ pc = "dh_mul"
    /\ ecPool' = ecPool + 1
    /\ cnt' = [cnt EXCEPT !.getPoint = @ + 1]
    /\ T' = DH_T(arg, curve)
    /\ pc' = "dh_get"
    /\ UNCHANGED << curve, fn, arg, share, share0, gfPool, nsR, elm,
                    finite_point, status, calls >>

\* variant: the output is written whether or not the point is finite
DH_GetPoint_AlwaysShare ==
    /\ pc = "dh_get"
    /\ gfPool' = gfPool + 1
    /\ cnt' = [cnt EXCEPT !.getElm = @ + 1]
    /\ elm' = gfec_GetPoint(T, curve).x
    /\ finite_point' = gfec_GetPoint(T, curve).finite
    /\ pc' = "dh_share"
    /\ UNCHANGED << curve, fn, arg, share, share0, ecPool, nsR, T, status, calls >>

DH_GetPoint ==
    /\ pc = "dh_get"
    /\ gfPool' = gfPool + 1
    /\ cnt' = [cnt EXCEPT !.getElm = @ + 1]
    /\ elm' = gfec_GetPoint(T, curve).x
    /\ finite_point' = gfec_GetPoint(T, curve).finite
    /\ pc' = IF finite_point' THEN "dh_share" ELSE "dh_release"
    /\ UNCHANGED << curve, fn, arg, share, share0, ecPool, nsR, T, status, calls >>

DH_Encode ==
    /\ pc = "dh_share"
    /\ share' = DH_Share(share, elm, curve)
    /\ pc' = "dh_release"
    /\ UNCHANGED << curve, fn, arg, share0, ecPool, gfPool, cnt, locals, status, calls >>

DH_Release ==
    /\ pc = "dh_release"
    /\ gfPool' = gfPool - 1
    /\ ecPool' = ecPool - 1
    /\ cnt' = [cnt EXCEPT !.relElm = @ + 1, !.relPoint = @ + 1]
    /\ status' = DH_Status(finite_point)
    /\ pc' = "done"
    /\ UNCHANGED << curve, fn, arg, share, share0, locals, calls >>

(* ---------------------------- ippsGFpECSharedSecretDHC ----------------- *)
\* variant: every pointer is tested for null before any tag
DHC_BadArg_NullsFirst(a, sh, c) ==
    IF a.pEC.null \/ a.pScratchBuffer.null \/ a.pPrivateA.null
       \/ a.pPublicB.null \/ sh.null THEN ippStsNullPtrErr
    ELSE IF ~ECP_TEST_ID(a.pEC) THEN ippStsContextMatchErr
    ELSE IF ~BN_VALID_ID(a.pPrivateA) THEN ippStsContextMatchErr
    ELSE IF ~ECP_POINT_TEST_ID(a.pPublicB) THEN ippStsContextMatchErr
    ELSE IF ~BN_VALID_ID(sh) THEN ippStsContextMatchErr
    ELSE IF BN_ROOM(sh) < GFP_FELEN(c) THEN ippStsRangeErr
    ELSE Passed

DHC_BadArg(a, sh, c) ==
    IF a.pEC.null \/ a.pScratchBuffer.null THEN ippStsNullPtrErr
    ELSE IF ~ECP_TEST_ID(a.pEC) THEN ippStsContextMatchErr
    ELSE IF a.pPrivateA.null THEN ippStsNullPtrErr
    ELSE IF ~BN_VALID_ID(a.pPrivateA) THEN ippStsContextMatchErr
    ELSE IF a.pPublicB.null THEN ippStsNullPtrErr
    ELSE IF ~ECP_POINT_TEST_ID(a.pPublicB) THEN ippStsContextMatchErr
    ELSE IF sh.null THEN ippStsNullPtrErr
    ELSE IF ~BN_VALID_ID(sh) THEN ippStsContextMatchErr
    ELSE IF BN_ROOM(sh) < GFP_FELEN(c) THEN ippStsRangeErr
    ELSE Passed

\* variant: the private key is not taken into the Montgomery domain
DHC_F_NoEnc(a, c) ==
    cpMontMul_BNU_EX(BN_NUMBER(a.pPrivateA), BN_SIZE(a.pPrivateA),
                     ECP_COFACTOR(c), 1, c)

\* factored secret F = coFactor*privateA
DHC_F(a, c) ==
    cpMontMul_BNU_EX(
        cpMontEnc_BNU_EX(BN_NUMBER(a.pPrivateA), BN_SIZE(a.pPrivateA), c),
        MOD_LEN(c), ECP_COFACTOR(c), 1, c)

\* T = [F]pPublicB
DHC_T(a, pF, ns, c) == gfec_MulPoint(a.pPublicB.P, pF, FIX_BNU(pF, ns), c)

\* gfec_GetPoint writes the x-coordinate over the limbs of F
DHC_Elm(pF, x) ==
    [i \in 1..(IF Len(pF) > Len(x) THEN Len(pF) ELSE Len(x)) |->
        IF i <= Len(x) THEN x[i] ELSE pF[i]]

\* variant: the limbs above the field element are not cleared
DHC_Share_NoPadd(sh, pElm, c) ==
    LET elmLen == GFP_FELEN(c)
        nsShare == BN_ROOM(sh)
        decoded == GFpDecode(pElm, c)
        written == [i \in 1..nsShare |->
                       IF i <= elmLen THEN decoded[i] ELSE BN_NUMBER(sh)[i]]
    IN  [sh EXCEPT !.number = written,
                   !.sgn = ippBigNumPOS,
                   !.size = FIX_BNU(written, nsShare)]

\* share = decode(T.x), padded, positive, normalized
DHC_Share(sh, pElm, c) ==
    LET elmLen == GFP_FELEN(c)
        nsShare == BN_ROOM(sh)
        decoded == GFpDecode(pElm, c)
        written == [i \in 1..nsShare |->
                       IF i <= elmLen THEN decoded[i] ELSE BN_NUMBER(sh)[i]]
        padded == cpGFpElementPadd(written, elmLen + 1, nsShare - elmLen, 0)
    IN  [sh EXCEPT !.number = padded,
                   !.sgn = ippBigNumPOS,
                   !.size = FIX_BNU(padded, nsShare)]

DHC_Status(finite) == IF finite THEN ippStsNoErr ELSE ippStsShareKeyErr

ippsGFpECSharedSecretDHC(a, sh, c) ==
    IF DHC_BadArg(a, sh, c) # Passed
    THEN [status |-> DHC_BadArg(a, sh, c), share |-> sh]
    ELSE LET pF == DHC_F(a, c)
             g == gfec_GetPoint(DHC_T(a, pF, MOD_LEN(c), c), c)
         IN  [status |-> DHC_Status(g.finite),
              share |-> IF g.finite
                        THEN DHC_Share(sh, DHC_Elm(pF, g.x), c) ELSE sh]

DHC_Enter ==
    /\ pc = "idle"
    /\ calls < MaxCalls
    /\ calls' = calls + 1
    /\ \E a \in CallArgs(curve), sh \in ShareArgs :
          /\ arg' = a
          /\ share' = sh
          /\ share0' = sh
          /\ IF DHC_BadArg(a, sh, curve) = Passed
             THEN pc' = "dhc_scale" /\ status' = Running
             ELSE pc' = "done" /\ status' = DHC_BadArg(a, sh, curve)
    /\ fn' = "DHC"
    /\ cnt' = NoCount
    /\ UNCHANGED << curve, ecPool, gfPool, locals >>

DHC_Scale ==
    /\ pc = "dhc_scale"
    /\ nsR' = MOD_LEN(curve)
    /\ gfPool' = gfPool + 1
    /\ cnt' = [cnt EXCEPT !.getElm = @ + 1]
    /\ elm' = DHC_F(arg, curve)
    /\ pc' = "dhc_mul"
    /\ UNCHANGED << curve, fn, arg, share, share0, ecPool, T, finite_point,
                    status, calls >>

DHC_MulPoint ==
    /\ pc = "dhc_mul"
    /\ ecPool' = ecPool + 1
    /\ cnt' = [cnt EXCEPT !.getPoint = @ + 1]
    /\ nsR' = FIX_BNU(elm, nsR)
    /\ T' = DHC_T(arg, elm, nsR, curve)
    /\ pc' = "dhc_get"
    /\ UNCHANGED << curve, fn, arg, share, share0, gfPool, elm, finite_point,
                    status, calls >>

DHC_GetPoint ==
    /\ pc = "dhc_get"
    /\ elm' = DHC_Elm(elm, gfec_GetPoint(T, curve).x)
    /\ finite_point' = gfec_GetPoint(T, curve).finite
    /\ pc' = IF finite_point' THEN "dhc_share" ELSE "dhc_release"
    /\ UNCHANGED << curve, fn, arg, share, share0, ecPool, gfPool, cnt, nsR,
                    T, status, calls >>

DHC_Encode ==
    /\ pc = "dhc_share"
    /\ share' = DHC_Share(share, elm, curve)
    /\ pc' = "dhc_release"
    /\ UNCHANGED << curve, fn, arg, share0, ecPool, gfPool, cnt, locals, status, calls >>

\* variant: an infinite point returns without releasing the pools
DHC_Release_FiniteOnly ==
    /\ pc = "dhc_release"
    /\ gfPool' = IF finite_point THEN gfPool - 1 ELSE gfPool
    /\ ecPool' = IF finite_point THEN ecPool - 1 ELSE ecPool
    /\ cnt' = IF finite_point
              THEN [cnt EXCEPT !.relElm = @ + 1, !.relPoint = @ + 1]
              ELSE cnt
    /\ status' = DHC_Status(finite_point)
    /\ pc' = "done"
    /\ UNCHANGED << curve, fn, arg, share, share0, locals, calls >>

DHC_Release ==
    /\ pc = "dhc_release"
    /\ gfPool' = gfPool - 1
    /\ ecPool' = ecPool - 1
    /\ cnt' = [cnt EXCEPT !.relElm = @ + 1, !.relPoint = @ + 1]
    /\ status' = DHC_Status(finite_point)
    /\ pc' = "done"
    /\ UNCHANGED << curve, fn, arg, share, share0, locals, calls >>

(* ---------------------------- the caller ------------------------------- *)
\* the call has returned: its frame is gone and the caller takes the result
Return ==
    /\ pc = "done"
    /\ pc' = "idle"
    /\ arg' = NoArgs
    /\ share' = NullBN
    /\ share0' = NullBN
    /\ cnt' = NoCount
    /\ nsR' = 0
    /\ T' = Infinity
    /\ elm' = << >>
    /\ finite_point' = FALSE
    /\ status' = NoStatus
    /\ UNCHANGED << curve, fn, ecPool, gfPool, calls >>

Init ==
    /\ curve \in CurveIds
    /\ pc = "idle"
    /\ fn = "DH"
    /\ arg = NoArgs
    /\ share = NullBN
    /\ share0 = NullBN
    /\ ecPool = 0
    /\ gfPool = 0
    /\ cnt = NoCount
    /\ nsR = 0
    /\ T = Infinity
    /\ elm = << >>
    /\ finite_point = FALSE
    /\ status = NoStatus
    /\ calls = 0

Next ==
    \/ DH_Enter
    \/ DH_MulPoint
    \/ DH_GetPoint
    \/ DH_Encode
    \/ DH_Release
    \/ DHC_Enter
    \/ DHC_Scale
    \/ DHC_MulPoint
    \/ DHC_GetPoint
    \/ DHC_Encode
    \/ DHC_Release
    \/ Return

Spec == Init /\ [][Next]_vars

TypeOK ==
    /\ curve \in CurveIds
    /\ calls \in 0..MaxCalls
    /\ ecPool \in 0..1
    /\ gfPool \in 0..1
    /\ status \in {NoStatus, Running, ippStsNoErr, ippStsNullPtrErr,
                   ippStsContextMatchErr, ippStsRangeErr, ippStsShareKeyErr}

(* ---------------------------- reference notions ------------------------ *)
\* k.P by repeated addition
RECURSIVE ec_times(_, _, _)
ec_times(c, P, k) == IF k = 0 THEN Infinity ELSE ec_add(c, ec_times(c, P, k - 1), P)

\* the order of the point P
ec_order(c, P) ==
    CHOOSE k \in 1..(Curves[c].cofactor * Curves[c].r) :
        /\ ec_times(c, P, k) = Infinity
        /\ \A j \in 1..(k - 1) : ec_times(c, P, j) # Infinity

\* the multiples of the base point
GTimes ==
    [c \in CurveIds |-> [k \in 0..(MaxScalar * MaxScalar) |->
        ec_times(c, Curves[c].G, k)]]

GMul(c, k) == GTimes[c][k]

\* the value of a big number
BN_Value(bn) == BNU_Value(BN_NUMBER(bn), BN_SIZE(bn))

\* the four objects in the order they are tested, with their right tags
Tested(a, sh) ==
    << [null |-> a.pEC.null, tagOk |-> a.pEC.idCtx = idCtxGFPEC],
       [null |-> a.pPrivateA.null, tagOk |-> a.pPrivateA.idCtx = idCtxBigNum],
       [null |-> a.pPublicB.null, tagOk |-> a.pPublicB.idCtx = idCtxGFPPoint],
       [null |-> sh.null, tagOk |-> sh.idCtx = idCtxBigNum] >>

\* the failure of the object at position i, if any
Failure(a, sh, i) ==
    LET o == Tested(a, sh)[i]
    IN  IF o.null \/ (i = 1 /\ a.pScratchBuffer.null) THEN ippStsNullPtrErr
        ELSE IF ~o.tagOk THEN ippStsContextMatchErr
        ELSE IF i = 4 /\ sh.room < GFP_FELEN(curve) THEN ippStsRangeErr
        ELSE Passed

FailingAt(a, sh) == { i \in 1..4 : Failure(a, sh, i) # Passed }

FirstFailure(a, sh) ==
    IF FailingAt(a, sh) = {} THEN Passed
    ELSE Failure(a, sh, CHOOSE i \in FailingAt(a, sh) :
                            \A j \in FailingAt(a, sh) : i <= j)

Valid == FailingAt(arg, share0) = {}

Returned == pc = "done"

StaleShare == share0.sgn = ippBigNumNEG

(* ---------------------------- C1 --------------------------------------- *)
\* C1: both entry points return the status of the first failing test in the
\* order context (with scratch buffer), private scalar, public point,
\* output (null, then tag, then room for the output), and nothing is
\* reserved, computed or written unless every test has passed.
C1_FirstFailingCheck ==
    /\ (Returned /\ ~Valid) =>
          /\ status = FirstFailure(arg, share0)
          /\ cnt = NoCount /\ ecPool = 0 /\ gfPool = 0
          /\ share = share0
          /\ T = Infinity /\ elm = << >> /\ nsR = 0
    /\ (pc \notin {"idle", "done"} \/ cnt # NoCount \/ share # share0) => Valid

C1_Witness ==
    /\ Returned /\ fn = "DHC"
    /\ status = ippStsContextMatchErr
    /\ ~arg.pPublicB.null /\ arg.pPublicB.idCtx # idCtxGFPPoint
    /\ share0.null

(* ---------------------------- C2 --------------------------------------- *)
AnyNull == arg.pEC.null \/ arg.pPrivateA.null \/ arg.pPublicB.null \/ share0.null

FirstNull ==
    CHOOSE i \in 1..4 : /\ Tested(arg, share0)[i].null
                        /\ \A j \in 1..(i - 1) : ~Tested(arg, share0)[j].null

WrongTagBeforeNull ==
    /\ ~arg.pScratchBuffer.null
    /\ \E j \in 1..(FirstNull - 1) : ~Tested(arg, share0)[j].tagOk

\* C2 as stated: a null private scalar, public point, output or context
\* gives NullPointer whatever the other arguments are.
C2_NullAlwaysNullPtr == (Returned /\ AnyNull) => status = ippStsNullPtrErr

\* C2 amended: with a null private scalar, public point, output or context
\* the call returns NullPointer, unless the scratch buffer is non-null and
\* an argument tested before the first null one carries a wrong tag: then
\* it returns ContextMismatch.  Arguments tested later never matter.
C2_NullUnlessEarlierTag ==
    (Returned /\ AnyNull) =>
        status = IF WrongTagBeforeNull THEN ippStsContextMatchErr
                 ELSE ippStsNullPtrErr

C2_Witness ==
    /\ Returned /\ fn = "DH"
    /\ status = ippStsNullPtrErr
    /\ ~arg.pEC.null /\ ~arg.pPrivateA.null /\ arg.pPublicB.null
    /\ ~share0.null /\ share0.idCtx # idCtxBigNum /\ share0.room < GFP_FELEN(curve)

(* ---------------------------- C3 --------------------------------------- *)
EarlierChecksPass ==
    /\ ~arg.pScratchBuffer.null
    /\ \A i \in 1..4 : ~Tested(arg, share0)[i].null /\ Tested(arg, share0)[i].tagOk

\* C3: when every earlier test passes and the room of the output is less
\* than the field element length, the call returns InsufficientCapacity and
\* the output (limbs, sign, size) is what it was before the call.
C3_RangeErrKeepsShare ==
    (Returned /\ EarlierChecksPass /\ share0.room < GFP_FELEN(curve)) =>
        (status = ippStsRangeErr /\ share = share0)

C3_Witness ==
    /\ Returned /\ fn = "DHC" /\ EarlierChecksPass
    /\ share0.room = GFP_FELEN(curve) - 1 /\ StaleShare
    /\ status = ippStsRangeErr

(* ---------------------------- C4 --------------------------------------- *)
\* C4: under the cofactor variant, valid arguments and a public point whose
\* order divides the cofactor give DegenerateSharedSecret for every private
\* scalar.
C4_LowOrderDegenerate ==
    (Returned /\ fn = "DHC" /\ Valid
       /\ Curves[curve].cofactor % ec_order(curve, arg.pPublicB.P) = 0)
    => status = ippStsShareKeyErr

(* ---------------------------- C5 --------------------------------------- *)
\* C5: under the plain variant with valid arguments the call returns
\* DegenerateSharedSecret exactly when privateScalar.PublicPoint is the
\* point at infinity (in particular for the identity as public point) and
\* Success otherwise.
C5_PlainDegenerateIff ==
    (Returned /\ fn = "DH" /\ Valid) =>
        /\ status \in {ippStsNoErr, ippStsShareKeyErr}
        /\ status = ippStsShareKeyErr
             <=> ec_times(curve, arg.pPublicB.P, BN_Value(arg.pPrivateA)) = Infinity
        /\ arg.pPublicB.P = Infinity => status = ippStsShareKeyErr

C5_Witness ==
    /\ Returned /\ fn = "DH" /\ Valid
    /\ arg.pPublicB.P = Infinity /\ BN_Value(arg.pPrivateA) = 3
    /\ status = ippStsShareKeyErr

(* ---------------------------- C6 --------------------------------------- *)
\* C6: on a curve of cofactor 1 and valid arguments the two entry points
\* return the same status and, on Success, leave the same output.
C6_CofactorOneSameAsPlain ==
    (Returned /\ Valid /\ Curves[curve].cofactor = 1) =>
        LET other == IF fn = "DHC"
                     THEN ippsGFpECSharedSecretDH(arg, share0, curve)
                     ELSE ippsGFpECSharedSecretDHC(arg, share0, curve)
        IN  /\ status = other.status
            /\ status = ippStsNoErr => share = other.share

C6_Witness ==
    /\ Returned /\ Valid /\ fn = "DHC" /\ Curves[curve].cofactor = 1
    /\ BN_Value(arg.pPrivateA) > Curves[curve].r
    /\ status = ippStsNoErr /\ StaleShare

(* ---------------------------- C7 --------------------------------------- *)
\* the point object a key pair publishes for the private scalar k
PublicKey(c, k) == [null |-> FALSE, idCtx |-> idCtxGFPPoint, P |-> GMul(c, k)]

\* C7: for key pairs (privA, privA.G) and (privB, privB.G) the plain variant
\* gives the same status for (privA, pubB) and (privB, pubA) and, on
\* Success, the same secret, the x-coordinate of (privA*privB).G.
C7_Symmetry ==
    (Returned /\ fn = "DH" /\ Valid) =>
        \A privB \in 0..MaxScalar :
            arg.pPublicB.P = GMul(curve, privB) =>
                LET privA == BN_Value(arg.pPrivateA)
                    other == ippsGFpECSharedSecretDH(
                                 [arg EXCEPT !.pPrivateA = BigNum(privB, idCtxBigNum),
                                             !.pPublicB = PublicKey(curve, privA)],
                                 share0, curve)
                IN  /\ status = other.status
                    /\ status = ippStsNoErr =>
                          /\ share = other.share
                          /\ ~GMul(curve, privA * privB).inf
                          /\ BN_Value(share) = GMul(curve, privA * privB).x

C7_Witness ==
    /\ Returned /\ fn = "DH" /\ Valid /\ status = ippStsNoErr
    /\ BN_Value(arg.pPrivateA) = 3
    /\ arg.pPublicB.P = GMul(curve, 2)
    /\ BN_Value(share) = GMul(curve, 6).x

(* ---------------------------- C8 --------------------------------------- *)
\* C8: on Success the output holds the decoded x-coordinate of the derived
\* point in its first elmLen limbs, zeros from there up to its room, a
\* positive sign and the normalized length as its size.
C8_SuccessOutput ==
    (Returned /\ status = ippStsNoErr) =>
        LET elmLen == GFP_FELEN(curve)
        IN  /\ ~T.inf
            /\ share.room = share0.room /\ Len(share.number) = share.room
            /\ \A i \in 1..elmLen :
                  share.number[i] = (T.x \div Pow(Base, i - 1)) % Base
            /\ \A i \in (elmLen + 1)..share.room : share.number[i] = 0
            /\ share.sgn = ippBigNumPOS
            /\ share.size \in 1..share.room
            /\ share.size = 1 \/ share.number[share.size] # 0
            /\ \A i \in (share.size + 1)..share.room : share.number[i] = 0

C8_Witness ==
    /\ Returned /\ status = ippStsNoErr /\ fn = "DHC"
    /\ StaleShare /\ share0.room > GFP_FELEN(curve)
    /\ T.x < Base /\ T.x > 0 /\ share.size = 1

(* ---------------------------- C9 --------------------------------------- *)
\* C9: on DegenerateSharedSecret the output is what it was before the call;
\* the output is written only once the derived point was found finite.
C9_DegenerateKeepsShare ==
    /\ (Returned /\ status = ippStsShareKeyErr) => share = share0
    /\ share # share0 => finite_point

C9_Witness ==
    /\ Returned /\ status = ippStsShareKeyErr /\ fn = "DH"
    /\ StaleShare /\ ~arg.pPublicB.P.inf

(* ---------------------------- C10 -------------------------------------- *)
\* C10: between calls both pools are at their initial level; a call that
\* passes validation reserves one scratch point and one scratch element and
\* releases one of each before it returns, whatever its outcome, and a call
\* that fails validation reserves and releases nothing.
C10_PoolsBalanced ==
    /\ ecPool = cnt.getPoint - cnt.relPoint
    /\ gfPool = cnt.getElm - cnt.relElm
    /\ pc \in {"idle", "done"} => (ecPool = 0 /\ gfPool = 0)
    /\ (Returned /\ Valid) =>
          cnt = [getPoint |-> 1, getElm |-> 1, relPoint |-> 1, relElm |-> 1]
    /\ (Returned /\ ~Valid) => cnt = NoCount
    /\ cnt.getPoint <= 1 /\ cnt.getElm <= 1

C10_Witness ==
    /\ Returned /\ calls = 2 /\ fn = "DHC" /\ status = ippStsShareKeyErr
    /\ ecPool = 0 /\ gfPool = 0

====
